---- MODULE Spec2Model ----
(***************************************************************************)
(* A model of the query-builder desktop client: the history store          *)
(* (src/src/query_history.py), the template store                          *)
(* (src/src/template_manager.py) and the submit handler of the main        *)
(* window (src/src/app.py) with the API client (src/src/api_client.py).    *)
(*                                                                         *)
(* Strings that the code only compares are modelled as TLA+ strings.  A    *)
(* query text is a sequence of tokens, so that strip() and the             *)
(* "{table_name}" membership test are computed.  A history id              *)
(* "query_<n>" is modelled by the integer n.                               *)
(***************************************************************************)
EXTENDS Integers, Sequences, FiniteSets, TLC

\* ------------------------------------------------------------------------
\* Bounds of the model
\* ------------------------------------------------------------------------

\* The clock stops after this many sub-second ticks.
MaxClock == 2

\* Sub-second ticks per second: datetime.now() is finer than one second.
TicksPerSecond == 2

\* No new entry is added to a history that already has this many entries.
MaxHistory == 3

\* ------------------------------------------------------------------------
\* Values
\* ------------------------------------------------------------------------

\* The internal values of DbManager.db_type_map.
DbTypes == {"postgres", "mysql", "mongodb"}

\* The (query, db_type) pairs given to the history store; a query text is
\* a sequence of tokens.
HistoryInputs ==
    {<<(<<"x">>), "postgres">>, <<(<<"x">>), "mysql">>,
     <<(<<"x", "{table_name}">>), "postgres">>}

\* Python's None where a timestamp is expected.
NoneTimestamp == -1

\* The outcomes of writing a file in save_history / save_templates:
\* the write succeeds, open() raises (file untouched), or the file is
\* truncated by open(.., "w") and the dump raises part-way.
WriteOutcomes == {"ok", "open_failed", "partial"}

\* The exception raised inside the try block of a save: none, that of
\* open(), or that of the dump.
WriteException(w) ==
    CASE w = "ok" -> "none"
      [] w = "open_failed" -> "PermissionError"
      [] w = "partial" -> "OSError"

\* The exceptions an "except Exception" clause catches.
Exceptions == {"PermissionError", "OSError", "FileNotFoundError",
               "JSONDecodeError", "TypeError"}

\* save_history: the exception that leaves it.
SaveHistoryExc(w) ==
    IF WriteException(w) \in Exceptions THEN "none" ELSE WriteException(w)

\* save_templates: the exception that leaves it.
SaveTemplatesExc(w) ==
    IF WriteException(w) \in Exceptions THEN "none" ELSE WriteException(w)

\* A save_config whose except clause catches nothing.
SaveConfigExcUncaught(w) == WriteException(w)

\* save_config: the exception that leaves it.
SaveConfigExc(w) ==
    IF WriteException(w) \in Exceptions THEN "none" ELSE WriteException(w)

\* The ids a caller may pass to toggle_favorite / delete_query.
IdInputs == 0..(MaxClock \div TicksPerSecond)

AbsentFile == [state |-> "absent", data |-> <<>>]
CorruptFile == [state |-> "corrupt", data |-> <<>>]

VARIABLES
    now,            \* the wall clock, in ticks
    history,        \* QueryHistoryManager.history of the live manager
    history_file,   \* query_history.json
    last,           \* the last store call, with its arguments, result and pre-state
    twice           \* set when the last two calls were the same call: the
                    \* history before the first of the two

\* The main window (QueryBuilder) with its DbManager and DataVisualizer.
VARIABLES
    app_query,      \* QueryBuilder.query, the text of the editor
    db_config,      \* DbManager.db_config
    config_file,    \* db_config.json
    error,          \* QueryBuilder.error
    loading,        \* QueryBuilder.loading
    run_enabled,    \* whether run_button is enabled
    view,           \* DataVisualizer: the data set and the rows of the table
    sub,            \* the last handler when it was a submit: what the API
                    \* did, the request posted, the message boxes shown and
                    \* the history before it
    api             \* the last call of the ApiClient made on its own, with
                    \* its arguments, what the API did and the outcome

\* The template store.
VARIABLES
    default_templates,  \* the module-level list DEFAULT_TEMPLATES
    templates,          \* TemplateManager.templates of the live manager
    aliased,            \* templates is the list object DEFAULT_TEMPLATES
    templates_file,     \* templates.json
    dialog_db_type,     \* TemplateManagerDialog.db_type of the open dialog
    dialog_address,     \* id(self) of the open TemplateManagerDialog
    tlast               \* the last call of the template store or handler of
                        \* the dialog, with its argument, result and pre-state

\* The configuration store seen on its own, and a second history store.
VARIABLES
    clast,          \* the last call of the DbManager or handler that writes
                    \* db_config, with its argument, the outcome of the write,
                    \* the exception it ended with and the pre-state
    dialog_history  \* QueryHistoryManager.history of the manager held by an
                    \* open QueryHistoryDialog

hvars == <<now, history, history_file, last, twice>>

avars == <<app_query, db_config, config_file, error, loading, run_enabled, view,
           sub, api>>

tvars == <<default_templates, templates, aliased, templates_file,
           dialog_db_type, dialog_address, tlast>>

xvars == <<clast, dialog_history>>

vars == <<hvars, avars, tvars, xvars>>

\* ------------------------------------------------------------------------
\* QueryHistoryItem
\* ------------------------------------------------------------------------

\* int(datetime.now().timestamp()) of f"query_{...}": the clock in seconds.
ItemId(t) == t \div TicksPerSecond

\* QueryHistoryItem.__init__: t1 and t2 are the two datetime.now() readings.
QueryHistoryItem(query, db_type, timestamp, is_favorite, t1, t2) ==
    [id |-> ItemId(t1),
     query |-> query,
     db_type |-> db_type,
     timestamp |-> IF timestamp = NoneTimestamp THEN t2 ELSE timestamp,
     is_favorite |-> is_favorite]

\* QueryHistoryItem.from_dict: data is a function on a subset of the keys.
FromDict(data, t) ==
    LET item == QueryHistoryItem(
                    IF "query" \in DOMAIN data THEN data["query"] ELSE <<>>,
                    IF "db_type" \in DOMAIN data THEN data["db_type"] ELSE "postgres",
                    IF "timestamp" \in DOMAIN data THEN data["timestamp"] ELSE NoneTimestamp,
                    IF "is_favorite" \in DOMAIN data THEN data["is_favorite"] ELSE FALSE,
                    t, t)
    IN  [item EXCEPT !.id = IF "id" \in DOMAIN data THEN data["id"] ELSE item.id]

\* A to_dict that leaves out is_favorite.
ToDictWithoutFavorite(item) ==
    [k \in {"id", "query", "db_type", "timestamp"} |->
        CASE k = "id" -> item.id
          [] k = "query" -> item.query
          [] k = "db_type" -> item.db_type
          [] k = "timestamp" -> item.timestamp]

\* QueryHistoryItem.to_dict
ToDict(item) ==
    [k \in {"id", "query", "db_type", "timestamp", "is_favorite"} |->
        CASE k = "id" -> item.id
          [] k = "query" -> item.query
          [] k = "db_type" -> item.db_type
          [] k = "timestamp" -> item.timestamp
          [] k = "is_favorite" -> item.is_favorite]

\* ------------------------------------------------------------------------
\* QueryHistoryManager
\* ------------------------------------------------------------------------

\* load_history: the items of the file, [] when it is absent or unreadable.
LoadHistory(file, t) ==
    IF file.state = "ok"
    THEN [i \in 1..Len(file.data) |-> FromDict(file.data[i], t)]
    ELSE <<>>

\* A save_history that writes nothing.
SaveHistorySkipped(h, file, w) == file

\* save_history: the file after writing h with outcome w.
SaveHistory(h, file, w) ==
    CASE w = "ok" -> [state |-> "ok", data |-> [i \in 1..Len(h) |-> ToDict(h[i])]]
      [] w = "open_failed" -> file
      [] w = "partial" -> CorruptFile

\* The sequence s without its element at index i.
RemoveAt(s, i) == [j \in 1..(Len(s) - 1) |-> IF j < i THEN s[j] ELSE s[j + 1]]

\* The indices of the items of h with this query and db_type.
MatchingPair(h, query, db_type) ==
    {i \in 1..Len(h) : h[i].query = query /\ h[i].db_type = db_type}

\* The indices of the items of h with this id.
MatchingId(h, query_id) == {i \in 1..Len(h) : h[i].id = query_id}

\* The least element of a non-empty set of indices: the first match of a loop.
First(S) == CHOOSE i \in S : \A j \in S : i <= j

\* add_query without the scan for an existing entry.
AddQueryResultNoScan(h, query, db_type, t1, t2) ==
    LET item == QueryHistoryItem(query, db_type, NoneTimestamp, FALSE, t1, t2)
    IN  <<(<<item>> \o h), item>>

\* add_query that reinserts the existing entry without removing it first.
AddQueryResultNoRemove(h, query, db_type, t1, t2) ==
    IF MatchingPair(h, query, db_type) # {}
    THEN LET i == First(MatchingPair(h, query, db_type))
         IN  <<(<<h[i]>> \o h), h[i]>>
    ELSE LET item == QueryHistoryItem(query, db_type, NoneTimestamp, FALSE, t1, t2)
         IN  <<(<<item>> \o h), item>>

\* add_query that appends instead of inserting at index 0.
AddQueryResultAppend(h, query, db_type, t1, t2) ==
    IF MatchingPair(h, query, db_type) # {}
    THEN LET i == First(MatchingPair(h, query, db_type))
         IN  <<Append(RemoveAt(h, i), h[i]), h[i]>>
    ELSE LET item == QueryHistoryItem(query, db_type, NoneTimestamp, FALSE, t1, t2)
         IN  <<Append(h, item), item>>

\* add_query that replaces the existing entry by a freshly built one.
AddQueryResultRebuild(h, query, db_type, t1, t2) ==
    LET item == QueryHistoryItem(query, db_type, NoneTimestamp, FALSE, t1, t2)
    IN  IF MatchingPair(h, query, db_type) # {}
        THEN <<(<<item>> \o RemoveAt(h, First(MatchingPair(h, query, db_type)))), item>>
        ELSE <<(<<item>> \o h), item>>

\* The in-memory effect of add_query: <<history after, returned item>>.
AddQueryResult(h, query, db_type, t1, t2) ==
    IF MatchingPair(h, query, db_type) # {}
    THEN LET i == First(MatchingPair(h, query, db_type))
         IN  <<(<<h[i]>> \o RemoveAt(h, i)), h[i]>>
    ELSE LET item == QueryHistoryItem(query, db_type, NoneTimestamp, FALSE, t1, t2)
         IN  <<(<<item>> \o h), item>>

\* toggle_favorite that sets the flag instead of flipping it.
ToggleFavoriteResultSet(h, query_id) ==
    IF MatchingId(h, query_id) # {}
    THEN LET i == First(MatchingId(h, query_id))
         IN  <<[h EXCEPT ![i].is_favorite = TRUE], TRUE>>
    ELSE <<h, FALSE>>

\* toggle_favorite whose loop does not stop at the first match.
ToggleFavoriteResultAll(h, query_id) ==
    IF MatchingId(h, query_id) # {}
    THEN LET i == First(MatchingId(h, query_id))
         IN  <<[j \in 1..Len(h) |->
                  IF h[j].id = query_id
                  THEN [h[j] EXCEPT !.is_favorite = ~h[j].is_favorite]
                  ELSE h[j]],
               ~h[i].is_favorite>>
    ELSE <<h, FALSE>>

\* The in-memory effect of toggle_favorite: <<history after, returned value>>.
ToggleFavoriteResult(h, query_id) ==
    IF MatchingId(h, query_id) # {}
    THEN LET i == First(MatchingId(h, query_id))
         IN  <<[h EXCEPT ![i].is_favorite = ~h[i].is_favorite], ~h[i].is_favorite>>
    ELSE <<h, FALSE>>

\* The in-memory effect of delete_query.
DeleteQueryResult(h, query_id) ==
    SelectSeq(h, LAMBDA item : item.id # query_id)

\* get_history with the filter inverted.
GetHistoryResultInverted(h, filter_favorites) ==
    IF filter_favorites
    THEN SelectSeq(h, LAMBDA item : ~item.is_favorite)
    ELSE h

\* get_history
GetHistoryResult(h, filter_favorites) ==
    IF filter_favorites
    THEN SelectSeq(h, LAMBDA item : item.is_favorite)
    ELSE h

\* ------------------------------------------------------------------------
\* The record of the last store call
\* ------------------------------------------------------------------------

NoItem == [id |-> -1, query |-> <<>>, db_type |-> "", timestamp |-> -1,
           is_favorite |-> FALSE]

Call(op, query, db_type, query_id, flag, retItem, retBool, retList, w) ==
    [op |-> op, query |-> query, db_type |-> db_type, id |-> query_id,
     flag |-> flag, retItem |-> retItem, retBool |-> retBool,
     retList |-> retList, write |-> w, exc |-> SaveHistoryExc(w),
     before |-> history, fileBefore |-> history_file]

NoCall == [op |-> "none", query |-> <<>>, db_type |-> "", id |-> -1,
           flag |-> FALSE, retItem |-> NoItem, retBool |-> FALSE,
           retList |-> <<>>, write |-> "ok", exc |-> "none",
           before |-> <<>>, fileBefore |-> AbsentFile]

NotTwice == [active |-> FALSE, before |-> <<>>]

\* The call c follows the last call: twice is set when c repeats it.
Record(c) ==
    /\ last' = c
    /\ twice' = IF /\ c.op = last.op /\ c.query = last.query
                   /\ c.db_type = last.db_type /\ c.id = last.id
                   /\ c.flag = last.flag
                THEN [active |-> TRUE, before |-> last.before]
                ELSE NotTwice

\* ------------------------------------------------------------------------
\* Actions of the history store
\* ------------------------------------------------------------------------

\* The clock advances.
Tick ==
    /\ now < MaxClock
    /\ now' = now + 1
    /\ UNCHANGED <<history, history_file, last, twice>>
    /\ UNCHANGED <<avars, tvars, xvars>>

\* QueryHistoryManager.__init__: a new manager loads the file.
NewManager ==
    /\ history' = LoadHistory(history_file, now)
    /\ Record(Call("init", <<>>, "", -1, FALSE, NoItem, FALSE, <<>>, "ok"))
    /\ UNCHANGED <<now, history_file>>
    /\ UNCHANGED <<avars, tvars, xvars>>

\* add_query; t2 is the second clock reading of a new item, w the outcome
\* of the write.
AddQuery(query, db_type, t2, w) ==
    /\ MatchingPair(history, query, db_type) = {} => Len(history) < MaxHistory
    /\ LET r == AddQueryResult(history, query, db_type, now, t2)
       IN  /\ history' = r[1]
           /\ history_file' = SaveHistory(r[1], history_file, w)
           /\ Record(Call("add_query", query, db_type, -1, FALSE,
                          r[2], FALSE, <<>>, w))
    /\ now' = IF MatchingPair(history, query, db_type) = {} THEN t2 ELSE now
    /\ UNCHANGED <<avars, tvars, xvars>>

\* toggle_favorite: the file is written only when an entry matched.
ToggleFavorite(query_id, w) ==
    /\ LET r == ToggleFavoriteResult(history, query_id)
       IN  /\ history' = r[1]
           /\ history_file' = IF MatchingId(history, query_id) # {}
                              THEN SaveHistory(r[1], history_file, w)
                              ELSE history_file
           /\ Record(Call("toggle_favorite", <<>>, "", query_id, FALSE,
                          NoItem, r[2], <<>>, w))
    /\ UNCHANGED now
    /\ UNCHANGED <<avars, tvars, xvars>>

\* delete_query
DeleteQuery(query_id, w) ==
    /\ history' = DeleteQueryResult(history, query_id)
    /\ history_file' = SaveHistory(history', history_file, w)
    /\ Record(Call("delete_query", <<>>, "", query_id, FALSE,
                   NoItem, FALSE, <<>>, w))
    /\ UNCHANGED now
    /\ UNCHANGED <<avars, tvars, xvars>>

\* get_history
GetHistory(filter_favorites) ==
    /\ Record(Call("get_history", <<>>, "", -1, filter_favorites,
                   NoItem, FALSE,
                   GetHistoryResult(history, filter_favorites), "ok"))
    /\ UNCHANGED <<now, history, history_file>>
    /\ UNCHANGED <<avars, tvars, xvars>>

\* The first manager of a fresh installation: no file, an empty history.
InitHistory ==
    /\ now = 0
    /\ history_file = AbsentFile
    /\ history = LoadHistory(history_file, now)
    /\ last = NoCall
    /\ twice = NotTwice

\* The calls of the history store; every write of the file succeeds.
NextHistory ==
    \/ Tick
    \/ NewManager
    \/ \E p \in HistoryInputs :
         \E t2 \in {t \in {now, now + 1} : t <= MaxClock} :
            AddQuery(p[1], p[2], t2, "ok")
    \/ \E i \in IdInputs : ToggleFavorite(i, "ok")
    \/ \E i \in IdInputs : DeleteQuery(i, "ok")
    \/ \E f \in BOOLEAN : GetHistory(f)

\* ------------------------------------------------------------------------
\* DbManager
\* ------------------------------------------------------------------------

\* The display names of DbManager.db_type_map.
DisplayNames == {"PostgreSQL", "MySQL", "MongoDB"}

\* DbManager.db_type_map
DbTypeMap(display_name) ==
    CASE display_name = "PostgreSQL" -> "postgres"
      [] display_name = "MySQL" -> "mysql"
      [] display_name = "MongoDB" -> "mongodb"

\* The db_config set by DbManager.__init__ before load_config.
DefaultConfig == [type |-> "postgres", url |-> "", tableName |-> ""]

\* db_config.json when it does not exist.
AbsentConfigFile == [state |-> "absent", data |-> DefaultConfig]

\* A save_config that writes nothing.
SaveConfigSkipped(config, file, w) == file

\* save_config: the file after writing config with outcome w.
SaveConfig(config, file, w) ==
    CASE w = "ok" -> [state |-> "ok", data |-> config]
      [] w = "open_failed" -> file
      [] w = "partial" -> [state |-> "corrupt", data |-> DefaultConfig]

\* The internal values of db_type_map.
Dialects == {DbTypeMap(n) : n \in DisplayNames}

\* The texts typed into the connection string field.
ConnectionStrings == {"", "db://h"}

\* What db_config.json can hold when a DbManager is constructed: nothing,
\* a record written by save_config, a record with a dialect that is not in
\* db_type_map, a text that is not JSON, and a file that cannot be opened
\* for reading.
PersistedRecords ==
    {AbsentConfigFile,
     [state |-> "ok", data |-> DefaultConfig],
     [state |-> "ok",
      data |-> [type |-> "mysql", url |-> "db://h", tableName |-> "users"]],
     [state |-> "ok",
      data |-> [type |-> "sqlite", url |-> "", tableName |-> ""]],
     [state |-> "corrupt", data |-> DefaultConfig],
     [state |-> "unreadable", data |-> DefaultConfig]}

\* load_config: db_config when it ends and the exception it ends with.
\* Only FileNotFoundError is caught; json.load raises before db_config is
\* assigned.
LoadConfig(file) ==
    CASE file.state = "ok" -> [config |-> file.data, exc |-> "none"]
      [] file.state = "absent" -> [config |-> DefaultConfig, exc |-> "none"]
      [] file.state = "corrupt" ->
           [config |-> DefaultConfig, exc |-> "JSONDecodeError"]
      [] file.state = "unreadable" ->
           [config |-> DefaultConfig, exc |-> "PermissionError"]

\* The record of a call that reads or writes db_config: its name and
\* argument, the outcome of its write, the exception it ended with, and
\* db_config and db_config.json before it.
ConfigCall(op, arg, w, exc, before, fileBefore) ==
    [op |-> op, arg |-> arg, w |-> w, exc |-> exc, before |-> before,
     fileBefore |-> fileBefore]

\* DbManager.__init__: the record of the load_config it ends with.
Constructed(file) ==
    ConfigCall("load_config", "", "ok", LoadConfig(file).exc, DefaultConfig, file)

\* The display names chosen in db_type_combo: the dialect that gets the
\* table name substituted, and one that does not.
AppDisplayNames == {"PostgreSQL", "MySQL"}

\* The main window adds no new entry to a history file that already has
\* this many entries.
MaxAppHistory == 2

\* The table names typed into table_name_input.
TableNames == {"", "users"}

\* ------------------------------------------------------------------------
\* ApiClient
\* ------------------------------------------------------------------------

\* The texts typed into the query editor (token sequences).
AppQueries == {<<>>, <<" ">>, <<"x">>, <<"x", "{table_name}">>}

\* The row lists of a response.
RowLists == {<<>>, <<"r1">>}

\* No JSON value: None.
NoBody == [shape |-> "none", rows |-> <<>>]

\* The JSON bodies of a response: a bare list of rows, an object with the
\* rows under "data", an object without a "data" key, and an object whose
\* "data" is null, or a single object without or with a "data" key of its
\* own.
Bodies ==
    {[shape |-> s, rows |-> r] : s \in {"list", "wrapped"}, r \in RowLists}
        \cup {[shape |-> "object", rows |-> <<>>],
              [shape |-> "wrapped_none", rows |-> <<>>],
              [shape |-> "wrapped_object", rows |-> <<>>],
              [shape |-> "wrapped_wrapped", rows |-> <<"r1">>]}

\* What requests.post does: a response with a status, a parsed body and
\* the raw text of an error body, or a requests.RequestException ("conn",
\* text is its cause).
Responses ==
    {[kind |-> "http", status |-> 200, body |-> b, text |-> ""] : b \in Bodies}
        \cup {[kind |-> "http", status |-> 500, body |-> NoBody, text |-> "boom"],
              [kind |-> "conn", status |-> 0, body |-> NoBody, text |-> "refused"]}

\* The bodies of a status-200 response seen by the client alone: those
\* above and a text that is not JSON.
ApiBodies ==
    Bodies \cup {[shape |-> "invalid", rows |-> <<>>]}

\* The statuses of a response.
Statuses == {200, 201, 404, 500}

\* The responses and failures seen by the client alone.
ApiResponses ==
    {[kind |-> "http", status |-> 200, body |-> b, text |-> ""] : b \in ApiBodies}
        \cup {[kind |-> "http", status |-> st, body |-> NoBody, text |-> t] :
                  st \in Statuses \ {200}, t \in {"", "boom"}}
        \cup {[kind |-> "conn", status |-> 0, body |-> NoBody, text |-> c] :
                  c \in {"refused", "timeout"}}

\* The queries and configurations passed to execute_query.
ApiQueries ==
    {<<"x">>, <<"SELECT * FROM ", "{table_name}">>,
     <<"{table_name}", "x", "{table_name}">>, <<"SELECT 1 as test">>}

ApiConfigs ==
    {[type |-> t, url |-> "", tableName |-> n] :
        t \in DbTypes, n \in {"", "users"}}

\* "{table_name}" in query
Contains(q, token) == \E i \in 1..Len(q) : q[i] = token

\* The processed query when only the first "{table_name}" is replaced.
ProcessQueryFirst(q, config) ==
    IF config.type = "postgres" /\ Contains(q, "{table_name}")
    THEN [q EXCEPT ![CHOOSE i \in 1..Len(q) :
                        /\ q[i] = "{table_name}"
                        /\ \A j \in 1..(i - 1) : q[j] # "{table_name}"] =
                 "\"" \o config.tableName \o "\""]
    ELSE q

\* The processed query of execute_query.
ProcessQuery(q, config) ==
    IF config.type = "postgres" /\ Contains(q, "{table_name}")
    THEN [i \in 1..Len(q) |->
             IF q[i] = "{table_name}"
             THEN "\"" \o config.tableName \o "\""
             ELSE q[i]]
    ELSE q

\* The request of requests.post: the endpoint under api_base_url, the
\* headers, and the payload.
Request(q, config, read_only) ==
    [url |-> "/api/queries/execute",
     headers |-> [ContentType |-> "application/json",
                  Accept |-> "application/json"],
     query |-> q, dbConfig |-> config, readOnly |-> read_only]

\* No exception.
NoApiError == [kind |-> "none", status |-> 0, text |-> ""]

\* The exception a call of the client ends with: Exception("API Error
\* (<status>): <text>") for a status other than 200, the RequestException
\* of requests.post raised again, the error of response.json(), or the
\* TypeError of len(None).
ApiError(exc, resp) ==
    CASE exc = "api" -> [kind |-> "api", status |-> resp.status, text |-> resp.text]
      [] exc = "conn" -> [kind |-> "conn", status |-> 0, text |-> resp.text]
      [] exc = "none" -> NoApiError
      [] OTHER -> [kind |-> exc, status |-> 0, text |-> ""]

\* execute_query that returns placeholder rows after a connection error.
ExecuteQueryFabricates(q, config, read_only, resp) ==
    [request |-> Request(ProcessQuery(q, config), config, read_only),
     exc |-> IF resp.kind = "http" /\ resp.status # 200 THEN "api" ELSE "none",
     error |-> IF resp.kind = "http" /\ resp.status # 200
               THEN ApiError("api", resp) ELSE NoApiError,
     data |-> CASE resp.kind = "conn" -> [shape |-> "list", rows |-> <<"m1">>]
                [] resp.status = 200 -> resp.body
                [] OTHER -> NoBody]

\* execute_query: the request posted, the exception raised ("none" when it
\* returns) and the value returned.  After a status 200 the body is parsed
\* and, for an object with a "data" key, len() of that value is logged
\* before the return.
ExecuteQuery(q, config, read_only, resp) ==
    LET exc == CASE resp.kind = "conn" -> "conn"
                 [] resp.kind = "http" /\ resp.status # 200 -> "api"
                 [] resp.body.shape = "invalid" -> "json"
                 [] resp.body.shape = "wrapped_none" -> "type"
                 [] OTHER -> "none"
    IN  [request |-> Request(ProcessQuery(q, config), config, read_only),
         exc |-> exc,
         error |-> ApiError(exc, resp),
         data |-> IF exc = "none" THEN resp.body ELSE NoBody]

\* The query and the configuration of run_test_query.
TestQuery == <<"SELECT 1 as test">>

TestConfig == [type |-> "postgres", url |-> "", tableName |-> ""]

\* run_test_query: as execute_query, without the len() that is logged.
RunTestQuery(resp) ==
    LET exc == CASE resp.kind = "conn" -> "conn"
                 [] resp.kind = "http" /\ resp.status # 200 -> "api"
                 [] resp.body.shape = "invalid" -> "json"
                 [] OTHER -> "none"
    IN  [request |-> Request(TestQuery, TestConfig, TRUE),
         exc |-> exc,
         error |-> ApiError(exc, resp),
         data |-> IF exc = "none" THEN resp.body ELSE NoBody]

\* The record of a call of the client.
ApiCall(op, q, config, read_only, resp, out) ==
    [op |-> op, query |-> q, config |-> config, read_only |-> read_only,
     resp |-> resp, out |-> out]

NoApiCall ==
    ApiCall("none", <<>>, TestConfig, TRUE,
            [kind |-> "conn", status |-> 0, body |-> NoBody, text |-> ""],
            [request |-> Request(<<>>, TestConfig, TRUE), exc |-> "none",
             error |-> NoApiError, data |-> NoBody])

\* A call of execute_query.
ExecuteQueryCall(q, config, read_only, resp) ==
    /\ api' = ApiCall("execute_query", q, config, read_only, resp,
                      ExecuteQuery(q, config, read_only, resp))
    /\ UNCHANGED <<app_query, db_config, config_file, error, loading,
                   run_enabled, view, sub>>
    /\ UNCHANGED <<hvars, tvars, xvars>>

\* A call of run_test_query.
RunTestQueryCall(resp) ==
    /\ api' = ApiCall("run_test_query", TestQuery, TestConfig, TRUE, resp,
                      RunTestQuery(resp))
    /\ UNCHANGED <<app_query, db_config, config_file, error, loading,
                   run_enabled, view, sub>>
    /\ UNCHANGED <<hvars, tvars, xvars>>

\* The calls of the client.
NextApi ==
    \/ \E q \in ApiQueries, c \in ApiConfigs, ro \in BOOLEAN,
          resp \in ApiResponses : ExecuteQueryCall(q, c, ro, resp)
    \/ \E resp \in ApiResponses : RunTestQueryCall(resp)

\* ------------------------------------------------------------------------
\* DataVisualizer and QueryBuilder
\* ------------------------------------------------------------------------

\* No unwrapping: the value itself.
UnwrapNever(data) == data

\* The value under "data" of an object that has the key, else the value.
Unwrap(data) ==
    CASE data.shape = "wrapped" -> [shape |-> "list", rows |-> data.rows]
      [] data.shape = "wrapped_none" -> NoBody
      [] data.shape = "wrapped_object" -> [shape |-> "object", rows |-> <<>>]
      [] data.shape = "wrapped_wrapped" -> [shape |-> "wrapped", rows |-> data.rows]
      [] OTHER -> data

\* DataVisualizer.set_data: the data kept and the rows of the table.
SetData(data) ==
    LET d == Unwrap(data)
    IN  [data |-> d,
         table |-> IF d.shape = "list" /\ d.rows # <<>> THEN d.rows ELSE <<>>]

\* display_results: actual_data, the view and the message box shown.
DisplayResults(data) ==
    LET actual_data == Unwrap(data)
    IN  IF actual_data.shape = "none"
           \/ (actual_data.shape = "list" /\ actual_data.rows = <<>>)
        THEN [actual_data |-> actual_data, view |-> SetData(NoBody),
              dialog |-> "Query Result"]
        ELSE [actual_data |-> actual_data, view |-> SetData(actual_data),
              dialog |-> "Query Success"]

\* The rows of display_mock_results.
MockData == [shape |-> "list", rows |-> <<"m1", "m2", "m3">>]

\* A strip() that removes nothing.
StripNothing(q) == q

\* query.strip(): the text without leading and trailing whitespace tokens.
Strip(q) ==
    LET I == {i \in 1..Len(q) : q[i] # " "}
    IN  IF I = {} THEN <<>>
        ELSE SubSeq(q, CHOOSE i \in I : \A j \in I : i <= j,
                       CHOOSE i \in I : \A j \in I : j <= i)

NoError == "None"

NoRequest == Request(<<>>, DefaultConfig, TRUE)

NoSub == [handler |-> "none", kind |-> "none", status |-> 0, query |-> <<>>,
          db_type |-> "", request |-> NoRequest, dialogs |-> <<>>,
          exc |-> "none", response |-> NoBody,
          body |-> NoBody, actual_data |-> NoBody,
          fileBefore |-> AbsentFile, historyBefore |-> <<>>]

\* The submit that is recorded in sub: the window whose handler ran
\* ("app" for src/src/app.py, "main" for src/main.py), what the API did, the
\* query and dialect submitted, the payload posted, the message boxes shown,
\* the value handed to display_results and its actual_data (None when it
\* did not run), and the history before the submit.
Sub(handler, kind, status, req, boxes, body, actual_data) ==
    [handler |-> handler, kind |-> kind, status |-> status, query |-> app_query,
     db_type |-> db_config.type, request |-> req, dialogs |-> boxes,
     exc |-> "none", response |-> NoBody,
     body |-> body, actual_data |-> actual_data,
     fileBefore |-> history_file, historyBefore |-> history]

\* handle_query_submit saves to the history always, also after an exception.
SavesToHistoryAlways(exc, err) == TRUE

\* handle_query_submit reaches add_query: nothing was raised in the try
\* block before it, and self.error is not set.
SavesToHistory(exc, err) == exc = "none" /\ err = NoError

\* on_query_changed
OnQueryChanged(q) ==
    /\ app_query' = q
    /\ sub' = NoSub
    /\ UNCHANGED <<db_config, config_file, error, loading, run_enabled, view,
                   api>>
    /\ UNCHANGED <<hvars, tvars, xvars>>

\* on_db_type_changed: DbManager.update_db_type
OnDbTypeChanged(display_name, w) ==
    /\ db_config' = [db_config EXCEPT !.type = DbTypeMap(display_name)]
    /\ config_file' = SaveConfig(db_config', config_file, w)
    /\ sub' = NoSub
    /\ UNCHANGED <<app_query, error, loading, run_enabled, view, api>>
    /\ UNCHANGED <<hvars, tvars, xvars>>

\* on_table_name_changed: DbManager.update_table_name
OnTableNameChanged(table_name, w) ==
    /\ db_config' = [db_config EXCEPT !.tableName = table_name]
    /\ config_file' = SaveConfig(db_config', config_file, w)
    /\ sub' = NoSub
    /\ UNCHANGED <<app_query, error, loading, run_enabled, view, api>>
    /\ UNCHANGED <<hvars, tvars, xvars>>

\* handle_query_submit of src/src/app.py.  resp is what the API does,
\* read_only the state of the check box, t2 the second clock reading of a
\* new history item, w the outcome of writing the history file.
HandleQuerySubmit(resp, read_only, t2, w) ==
    IF Strip(app_query) = <<>>
    THEN /\ sub' = Sub("app", "empty", 0, NoRequest, <<"Empty Query">>,
                     NoBody, NoBody)
         /\ UNCHANGED <<app_query, db_config, config_file, error, loading,
                        run_enabled, view, api>>
         /\ UNCHANGED <<hvars, tvars, xvars>>
    ELSE IF Contains(app_query, "{table_name}") /\ db_config.tableName = ""
    THEN /\ sub' = Sub("app", "no_table", 0, NoRequest,
                     <<"Table Name Required">>, NoBody, NoBody)
         /\ UNCHANGED <<app_query, db_config, config_file, error, loading,
                        run_enabled, view, api>>
         /\ UNCHANGED <<hvars, tvars, xvars>>
    ELSE LET r == ExecuteQuery(app_query, db_config, read_only, resp)
             shown == IF r.exc = "none"
                      THEN DisplayResults(r.data)
                      ELSE DisplayResults(MockData)
             err == CASE r.exc = "none" -> NoError
                      [] r.exc = "api" -> "API Error"
                      [] r.exc = "conn" -> "Connection Error"
                      [] OTHER -> "Error"
             loaded == LoadHistory(history_file, now)
             added == AddQueryResult(loaded, app_query, db_config.type, now, t2)
             isNew == MatchingPair(loaded, app_query, db_config.type) = {}
         IN  /\ error' = err
             /\ view' = shown.view
             /\ IF SavesToHistory(r.exc, NoError)
                THEN /\ isNew => Len(loaded) < MaxAppHistory
                     /\ history' = added[1]
                     /\ history_file' = SaveHistory(added[1], history_file, w)
                     /\ now' = IF isNew THEN t2 ELSE now
                ELSE UNCHANGED <<history, history_file, now>>
             /\ loading' = FALSE
             /\ run_enabled' = TRUE
             /\ sub' = [Sub("app", resp.kind, resp.status, r.request,
                            IF r.exc = "none"
                            THEN <<shown.dialog>>
                            ELSE <<"Query Error", shown.dialog>>,
                            IF r.exc = "none" THEN r.data ELSE MockData,
                            shown.actual_data)
                           EXCEPT !.exc = r.exc, !.response = resp.body]
             /\ UNCHANGED <<app_query, db_config, config_file, last, twice, api>>
             /\ UNCHANGED <<tvars, xvars>>

\* handle_query_submit and execute_query of src/main.py: execute_query
\* raises nothing for an API status error or a connection error, it sets
\* self.error and shows the message box itself (and the mock rows after a
\* connection error only).  Any other exception leaves execute_query and is
\* caught by handle_query_submit, which shows "Query Error".
MainHandleQuerySubmit(resp, read_only, t2, w) ==
    IF Strip(app_query) = <<>>
    THEN /\ sub' = Sub("main", "empty", 0, NoRequest, <<"Empty Query">>,
                     NoBody, NoBody)
         /\ UNCHANGED <<app_query, db_config, config_file, error, loading,
                        run_enabled, view, api>>
         /\ UNCHANGED <<hvars, tvars, xvars>>
    ELSE IF Contains(app_query, "{table_name}") /\ db_config.tableName = ""
    THEN /\ sub' = Sub("main", "no_table", 0, NoRequest,
                     <<"Table Name Required">>, NoBody, NoBody)
         /\ UNCHANGED <<app_query, db_config, config_file, error, loading,
                        run_enabled, view, api>>
         /\ UNCHANGED <<hvars, tvars, xvars>>
    ELSE LET r == ExecuteQuery(app_query, db_config, read_only, resp)
             shown == CASE r.exc = "none" -> DisplayResults(r.data)
                        [] r.exc = "conn" -> DisplayResults(MockData)
                        [] OTHER -> [actual_data |-> NoBody,
                                     view |-> SetData(NoBody), dialog |-> "None"]
             err == CASE r.exc = "none" -> NoError
                      [] r.exc = "api" -> "API Error"
                      [] r.exc = "conn" -> "Connection Error"
                      [] OTHER -> "Error"
             raised == IF r.exc \in {"none", "api", "conn"} THEN "none" ELSE r.exc
             loaded == LoadHistory(history_file, now)
             added == AddQueryResult(loaded, app_query, db_config.type, now, t2)
             isNew == MatchingPair(loaded, app_query, db_config.type) = {}
         IN  /\ error' = err
             /\ view' = shown.view
             /\ IF SavesToHistory(raised, err)
                THEN /\ isNew => Len(loaded) < MaxAppHistory
                     /\ history' = added[1]
                     /\ history_file' = SaveHistory(added[1], history_file, w)
                     /\ now' = IF isNew THEN t2 ELSE now
                ELSE UNCHANGED <<history, history_file, now>>
             /\ loading' = FALSE
             /\ run_enabled' = TRUE
             /\ sub' = [Sub("main", resp.kind, resp.status, r.request,
                            CASE r.exc = "none" -> <<shown.dialog>>
                              [] r.exc = "conn" -> <<err, shown.dialog>>
                              [] r.exc = "api" -> <<err>>
                              [] OTHER -> <<"Query Error">>,
                            CASE r.exc = "none" -> r.data
                              [] r.exc = "conn" -> MockData
                              [] OTHER -> NoBody,
                            shown.actual_data)
                           EXCEPT !.exc = r.exc, !.response = resp.body]
             /\ UNCHANGED <<app_query, db_config, config_file, last, twice, api>>
             /\ UNCHANGED <<tvars, xvars>>

\* save_query
SaveQuery(t2, w) ==
    /\ IF Strip(app_query) = <<>>
       THEN UNCHANGED <<history, history_file, now>>
       ELSE LET loaded == LoadHistory(history_file, now)
                added == AddQueryResult(loaded, app_query, db_config.type, now, t2)
                isNew == MatchingPair(loaded, app_query, db_config.type) = {}
            IN  /\ isNew => Len(loaded) < MaxAppHistory
                /\ history' = added[1]
                /\ history_file' = SaveHistory(added[1], history_file, w)
                /\ now' = IF isNew THEN t2 ELSE now
    /\ sub' = NoSub
    /\ UNCHANGED <<app_query, db_config, config_file, error, loading,
                   run_enabled, view, last, twice, api>>
    /\ UNCHANGED <<tvars, xvars>>

\* QueryBuilder.__init__ on a fresh installation.
InitApp ==
    /\ app_query = <<>>
    /\ config_file = AbsentConfigFile
    /\ db_config = LoadConfig(config_file).config
    /\ error = NoError
    /\ loading = FALSE
    /\ run_enabled = TRUE
    /\ view = SetData(NoBody)
    /\ sub = NoSub
    /\ api = NoApiCall
    /\ clast = Constructed(config_file)
    /\ dialog_history = <<>>

\* The handlers of the main window; every write of a file succeeds.  The
\* clock is read only for the id and the timestamp of a new history item,
\* which no handler of the main window reads: it stands still here, and
\* moves in SpecHistory.
NextApp ==
    \/ \E q \in AppQueries : OnQueryChanged(q)
    \/ \E n \in AppDisplayNames : OnDbTypeChanged(n, "ok")
    \/ \E n \in TableNames : OnTableNameChanged(n, "ok")
    \/ \E resp \in Responses, ro \in BOOLEAN :
         HandleQuerySubmit(resp, ro, now, "ok")
    \/ \E resp \in Responses, ro \in BOOLEAN :
         MainHandleQuerySubmit(resp, ro, now, "ok")
    \/ SaveQuery(now, "ok")

\* ------------------------------------------------------------------------
\* TemplateManager and TemplateManagerDialog
\* ------------------------------------------------------------------------

\* No append is made to a catalog that already has this many templates.
MaxTemplates == 4

\* The initial value of the module-level list DEFAULT_TEMPLATES.
SeedTemplates ==
    <<[id |-> "template_1", name |-> "Select All Records",
       description |-> "Retrieve all records from a table",
       query |-> <<"SELECT * FROM ", "{table_name}">>,
       category |-> "Basic", database_type |-> "postgres", is_public |-> TRUE],
      [id |-> "template_2", name |-> "Count Records",
       description |-> "Count the number of records in a table",
       query |-> <<"SELECT COUNT(*) FROM ", "{table_name}">>,
       category |-> "Basic", database_type |-> "postgres", is_public |-> TRUE],
      [id |-> "template_3", name |-> "Find MongoDB Documents",
       description |-> "Find documents in a MongoDB collection",
       query |-> <<"{ \"find\": {} }">>,
       category |-> "Basic", database_type |-> "mongodb", is_public |-> TRUE]>>

\* The addresses id(self) of a TemplateManagerDialog.  Only one dialog is
\* alive at a time, and CPython may give a later dialog the address of an
\* earlier one that was freed: the model takes that case.
DialogAddresses == {"A"}

\* The names typed into a TemplateDialog (save_template requires one).
TemplateNames == {"New", "Other"}

\* The db_type a TemplateManagerDialog is opened with.
DialogDbTypes == {"postgres", "mongodb"}

\* The template of create_template after TemplateDialog.save_template.
NewTemplate(template_id, name, db_type) ==
    [id |-> template_id, name |-> name, description |-> "",
     query |-> <<"x">>, category |-> "Custom", database_type |-> db_type,
     is_public |-> FALSE]

\* f"template_{id(self)}"
DialogTemplateId(address) == "template_" \o address

\* The templates a caller passes to add_template / update_template.
TemplateInputs ==
    {NewTemplate("template_1", "New", "mongodb"),
     NewTemplate("template_A", "New", "postgres")}

\* The ids a caller passes to delete_template.
TemplateIdInputs == {"template_1", "template_A"}

AbsentTemplatesFile == [state |-> "absent", data |-> <<>>]

\* load_templates: the list returned and whether it is the list object
\* DEFAULT_TEMPLATES itself.
LoadTemplates(file, defaults) ==
    IF file.state = "ok"
    THEN [templates |-> file.data, aliased |-> FALSE]
    ELSE [templates |-> defaults, aliased |-> TRUE]

\* save_templates: the file after writing ts with outcome w.
SaveTemplates(ts, file, w) ==
    CASE w = "ok" -> [state |-> "ok", data |-> ts]
      [] w = "open_failed" -> file
      [] w = "partial" -> [state |-> "corrupt", data |-> <<>>]

\* The indices of the templates of ts with this id.
MatchingTemplateId(ts, template_id) ==
    {i \in 1..Len(ts) : ts[i].id = template_id}

\* The list after add_template.
AddTemplateResult(ts, template) == Append(ts, template)

\* update_template that assigns at every entry with the id.
UpdateTemplateResultAll(ts, updated_template) ==
    [templates |-> [i \in 1..Len(ts) |->
                       IF ts[i].id = updated_template.id
                       THEN updated_template ELSE ts[i]],
     ret |-> MatchingTemplateId(ts, updated_template.id) # {}]

\* update_template: the list after it and the value returned.
UpdateTemplateResult(ts, updated_template) ==
    IF MatchingTemplateId(ts, updated_template.id) # {}
    THEN [templates |->
             [ts EXCEPT ![First(MatchingTemplateId(ts, updated_template.id))] =
                 updated_template],
          ret |-> TRUE]
    ELSE [templates |-> ts, ret |-> FALSE]

\* delete_template that drops the first entry with the id only.
DeleteTemplateResultFirst(ts, template_id) ==
    IF MatchingTemplateId(ts, template_id) = {} THEN ts
    ELSE RemoveAt(ts, First(MatchingTemplateId(ts, template_id)))

\* The list built by delete_template.
DeleteTemplateResult(ts, template_id) ==
    SelectSeq(ts, LAMBDA t : t.id # template_id)

\* get_templates_by_db_type that keeps the templates of the other dialects.
GetTemplatesByDbTypeOthers(ts, db_type) ==
    SelectSeq(ts, LAMBDA t : t.database_type # db_type)

\* get_templates_by_db_type
GetTemplatesByDbType(ts, db_type) ==
    SelectSeq(ts, LAMBDA t : t.database_type = db_type)

\* No template: the argument of a call that takes none.
NoTemplate == NewTemplate("", "", "")

\* The record of a call: its name, the template, id or dialect passed, the
\* value returned, and the catalog, the file and DEFAULT_TEMPLATES before it.
TemplateCall(op, template, ret, retList) ==
    [op |-> op, template |-> template, ret |-> ret, retList |-> retList,
     exc |-> "none",
     before |-> templates, fileBefore |-> templates_file,
     defaultsBefore |-> default_templates]

NoTemplateCall ==
    [op |-> "none", template |-> NoTemplate, ret |-> FALSE, retList |-> <<>>,
     exc |-> "none",
     before |-> <<>>, fileBefore |-> AbsentTemplatesFile,
     defaultsBefore |-> SeedTemplates]

\* add_template: append in place, then save.
AddTemplate(template, w) ==
    /\ Len(templates) < MaxTemplates
    /\ templates' = AddTemplateResult(templates, template)
    /\ default_templates' = IF aliased THEN templates' ELSE default_templates
    /\ templates_file' = SaveTemplates(templates', templates_file, w)
    /\ tlast' = [TemplateCall("add_template", template, FALSE, <<>>)
                   EXCEPT !.exc = SaveTemplatesExc(w)]
    /\ UNCHANGED <<aliased, dialog_db_type, dialog_address>>
    /\ UNCHANGED <<hvars, avars, xvars>>

\* update_template: assign in place and save when an id matches.
UpdateTemplate(updated_template, w) ==
    /\ LET r == UpdateTemplateResult(templates, updated_template)
       IN  /\ templates' = r.templates
           /\ default_templates' = IF aliased THEN templates' ELSE default_templates
           /\ templates_file' = IF r.ret
                                THEN SaveTemplates(templates', templates_file, w)
                                ELSE templates_file
           /\ tlast' = [TemplateCall("update_template", updated_template,
                                     r.ret, <<>>)
                          EXCEPT !.exc = IF r.ret THEN SaveTemplatesExc(w)
                                         ELSE "none"]
    /\ UNCHANGED <<aliased, dialog_db_type, dialog_address>>
    /\ UNCHANGED <<hvars, avars, xvars>>

\* delete_template: templates is bound to a new list, then saved.
DeleteTemplate(template_id, w) ==
    /\ templates' = DeleteTemplateResult(templates, template_id)
    /\ aliased' = FALSE
    /\ templates_file' = SaveTemplates(templates', templates_file, w)
    /\ tlast' = [TemplateCall("delete_template",
                              [NoTemplate EXCEPT !.id = template_id], FALSE,
                              <<>>)
                   EXCEPT !.exc = SaveTemplatesExc(w)]
    /\ UNCHANGED <<default_templates, dialog_db_type, dialog_address>>
    /\ UNCHANGED <<hvars, avars, xvars>>

\* get_templates_by_db_type: a new list is returned, nothing is assigned.
GetTemplates(db_type) ==
    /\ tlast' = TemplateCall("get_templates_by_db_type",
                             [NoTemplate EXCEPT !.database_type = db_type],
                             FALSE, GetTemplatesByDbType(templates, db_type))
    /\ UNCHANGED <<default_templates, templates, aliased, templates_file,
                   dialog_db_type, dialog_address>>
    /\ UNCHANGED <<hvars, avars, xvars>>

\* TemplateManagerDialog.__init__: a new TemplateManager loads the catalog.
OpenTemplateDialog(db_type, address) ==
    /\ LET r == LoadTemplates(templates_file, default_templates)
       IN  /\ templates' = r.templates
           /\ aliased' = r.aliased
           /\ tlast' = TemplateCall("load_templates",
                                    [NoTemplate EXCEPT !.database_type = db_type],
                                    FALSE, r.templates)
    /\ dialog_db_type' = db_type
    /\ dialog_address' = address
    /\ UNCHANGED <<default_templates, templates_file>>
    /\ UNCHANGED <<hvars, avars, xvars>>

\* on_template_saved for the template saved in a TemplateDialog that the
\* handler op opened: update_template when the dialog lists a template with
\* the id, else add_template.  The value recorded as returned is whether
\* the id was found.
OnTemplateSaved(op, template, w) ==
    LET listed == GetTemplatesByDbType(templates, dialog_db_type)
        existing == MatchingTemplateId(listed, template.id) # {}
        r == UpdateTemplateResult(templates, template)
    IN  /\ existing \/ Len(templates) < MaxTemplates
        /\ templates' = IF existing THEN r.templates
                        ELSE AddTemplateResult(templates, template)
        /\ default_templates' = IF aliased THEN templates' ELSE default_templates
        /\ templates_file' = IF existing /\ ~r.ret
                             THEN templates_file
                             ELSE SaveTemplates(templates', templates_file, w)
        /\ tlast' = [TemplateCall(op, template, existing, <<>>)
                       EXCEPT !.exc = IF existing /\ ~r.ret THEN "none"
                                      ELSE SaveTemplatesExc(w)]
        /\ UNCHANGED <<aliased, dialog_db_type, dialog_address>>
        /\ UNCHANGED <<hvars, avars, xvars>>

\* create_template, and the TemplateDialog saved with this name:
\* save_template emits template_saved only for a name that is not blank.
CreateTemplate(name, w) ==
    /\ name # ""
    /\ OnTemplateSaved("create_template",
                       NewTemplate(DialogTemplateId(dialog_address), name,
                                   dialog_db_type), w)

\* The first template dialog of a fresh installation.
InitTemplates ==
    /\ default_templates = SeedTemplates
    /\ templates_file = AbsentTemplatesFile
    /\ templates = LoadTemplates(templates_file, default_templates).templates
    /\ aliased = LoadTemplates(templates_file, default_templates).aliased
    /\ dialog_db_type = "postgres"
    /\ dialog_address = "A"
    /\ tlast = NoTemplateCall

\* The calls of the template store and the handlers of the template
\* dialog; every write of the file succeeds.
NextTemplates ==
    \/ \E t \in TemplateInputs : AddTemplate(t, "ok")
    \/ \E t \in TemplateInputs : UpdateTemplate(t, "ok")
    \/ \E i \in TemplateIdInputs : DeleteTemplate(i, "ok")
    \/ \E d \in DialogDbTypes : GetTemplates(d)
    \/ \E d \in DialogDbTypes, a \in DialogAddresses : OpenTemplateDialog(d, a)
    \/ \E n \in TemplateNames : CreateTemplate(n, "ok")

\* The calls of the template store when a write of templates.json can fail:
\* save_templates catches the exception and the file stays absent, or is
\* left half written.
NextTemplatesIO ==
    \/ \E t \in TemplateInputs, w \in WriteOutcomes : AddTemplate(t, w)
    \/ \E t \in TemplateInputs, w \in WriteOutcomes : UpdateTemplate(t, w)
    \/ \E i \in TemplateIdInputs, w \in WriteOutcomes : DeleteTemplate(i, w)
    \/ \E d \in DialogDbTypes, a \in DialogAddresses : OpenTemplateDialog(d, a)

Init == InitHistory /\ InitApp /\ InitTemplates

SpecHistory == Init /\ [][NextHistory]_vars

SpecApp == Init /\ [][NextApp]_vars

SpecApi == Init /\ [][NextApi]_vars

SpecTemplates == Init /\ [][NextTemplates]_vars

SpecTemplatesIO == Init /\ [][NextTemplatesIO]_vars

\* ------------------------------------------------------------------------
\* DbManager on its own
\* ------------------------------------------------------------------------

\* DbManager(): a start of the program with the db_config.json it finds.
\* When load_config raises, the constructor raises and no window exists.
NewDbManager ==
    /\ db_config' = LoadConfig(config_file).config
    /\ clast' = Constructed(config_file)
    /\ app_query' = <<>>
    /\ sub' = NoSub
    /\ UNCHANGED <<config_file, error, loading, run_enabled, view, api,
                   dialog_history>>
    /\ UNCHANGED <<hvars, tvars>>

\* update_db_type
UpdateDbType(display_name, w) ==
    /\ clast.exc = "none"
    /\ db_config' = [db_config EXCEPT !.type = DbTypeMap(display_name)]
    /\ config_file' = SaveConfig(db_config', config_file, w)
    /\ clast' = ConfigCall("update_db_type", display_name, w,
                           SaveConfigExc(w), db_config, config_file)
    /\ sub' = NoSub
    /\ UNCHANGED <<app_query, error, loading, run_enabled, view, api,
                   dialog_history>>
    /\ UNCHANGED <<hvars, tvars>>

\* update_table_name
UpdateTableName(table_name, w) ==
    /\ clast.exc = "none"
    /\ db_config' = [db_config EXCEPT !.tableName = table_name]
    /\ config_file' = SaveConfig(db_config', config_file, w)
    /\ clast' = ConfigCall("update_table_name", table_name, w,
                           SaveConfigExc(w), db_config, config_file)
    /\ sub' = NoSub
    /\ UNCHANGED <<app_query, error, loading, run_enabled, view, api,
                   dialog_history>>
    /\ UNCHANGED <<hvars, tvars>>

\* update_connection_string
UpdateConnectionString(connection_string, w) ==
    /\ clast.exc = "none"
    /\ db_config' = [db_config EXCEPT !.url = connection_string]
    /\ config_file' = SaveConfig(db_config', config_file, w)
    /\ clast' = ConfigCall("update_connection_string", connection_string, w,
                           SaveConfigExc(w), db_config, config_file)
    /\ sub' = NoSub
    /\ UNCHANGED <<app_query, error, loading, run_enabled, view, api,
                   dialog_history>>
    /\ UNCHANGED <<hvars, tvars>>

\* The text db_type_combo shows: the display name of the dialect set last
\* through the combo box or found at construction, the first item when the
\* loaded dialect is not in db_type_map.
ComboText(config) ==
    IF config.type \in Dialects
    THEN CHOOSE n \in DisplayNames : DbTypeMap(n) = config.type
    ELSE "PostgreSQL"

\* The templates the template dialog of show_templates lists: those of the
\* dialect of db_config.
Listed(catalog, config) ==
    LET l == GetTemplatesByDbType(catalog, config.type)
    IN  {l[i] : i \in 1..Len(l)}

\* apply_template for the i-th template of the catalog, chosen in the
\* dialog: the editor text and db_config["type"] are assigned;
\* setCurrentText emits currentTextChanged when the text of the combo box
\* changes, and on_db_type_changed then calls update_db_type.
ApplyTemplate(i, w) ==
    /\ clast.exc = "none"
    /\ i <= Len(templates)
    /\ templates[i] \in Listed(templates, db_config)
    /\ app_query' = templates[i].query
    /\ LET assigned == [db_config EXCEPT !.type = templates[i].database_type]
           emitted == /\ assigned.type \in Dialects
                      /\ ComboText(assigned) # ComboText(db_config)
       IN  /\ db_config' = assigned
           /\ config_file' = IF emitted
                             THEN SaveConfig(assigned, config_file, w)
                             ELSE config_file
    /\ clast' = ConfigCall("apply_template", templates[i].id, w, "none",
                           db_config, config_file)
    /\ sub' = NoSub
    /\ UNCHANGED <<error, loading, run_enabled, view, api, dialog_history>>
    /\ UNCHANGED <<hvars, tvars>>

\* A start of the program with any of the records db_config.json can hold.
InitConfig ==
    /\ InitHistory
    /\ InitTemplates
    /\ app_query = <<>>
    /\ config_file \in PersistedRecords
    /\ db_config = LoadConfig(config_file).config
    /\ error = NoError
    /\ loading = FALSE
    /\ run_enabled = TRUE
    /\ view = SetData(NoBody)
    /\ sub = NoSub
    /\ api = NoApiCall
    /\ clast = Constructed(config_file)
    /\ dialog_history = <<>>

\* The handlers that change db_config; a write of db_config.json succeeds,
\* fails at open or stops after a part of the text.
NextConfig ==
    \/ NewDbManager
    \/ \E n \in DisplayNames, w \in WriteOutcomes : UpdateDbType(n, w)
    \/ \E n \in TableNames, w \in WriteOutcomes : UpdateTableName(n, w)
    \/ \E c \in ConnectionStrings, w \in WriteOutcomes :
         UpdateConnectionString(c, w)
    \/ \E i \in 1..MaxTemplates, w \in WriteOutcomes : ApplyTemplate(i, w)

SpecConfig == InitConfig /\ [][NextConfig]_vars

\* ------------------------------------------------------------------------
\* Load and save of the three stores
\* ------------------------------------------------------------------------

\* What query_history.json can hold when a manager is constructed: nothing,
\* a text that is not JSON, two entries written by save_history (the first
\* a favorite), and an entry with the "query" key alone.
HistoryFiles ==
    {AbsentFile, CorruptFile,
     [state |-> "ok",
      data |-> <<[id |-> 1, query |-> <<"x">>, db_type |-> "mysql",
                  timestamp |-> 2, is_favorite |-> TRUE],
                 [id |-> 0, query |-> <<"x">>, db_type |-> "postgres",
                  timestamp |-> 0, is_favorite |-> FALSE]>>],
     [state |-> "ok", data |-> <<[k \in {"query"} |-> <<"x">>]>>]}

\* What templates.json can hold when a manager is constructed.
TemplatesFiles ==
    {AbsentTemplatesFile,
     [state |-> "corrupt", data |-> <<>>],
     [state |-> "ok", data |-> <<>>],
     [state |-> "ok", data |-> <<SeedTemplates[3], SeedTemplates[1]>>]}

\* save_history of the live manager.
SaveHistoryCall ==
    /\ history_file' = SaveHistory(history, history_file, "ok")
    /\ Record(Call("save_history", <<>>, "", -1, FALSE, NoItem, FALSE, <<>>,
                   "ok"))
    /\ UNCHANGED <<now, history>>
    /\ UNCHANGED <<avars, tvars, xvars>>

\* save_templates of the live manager.
SaveTemplatesCall ==
    /\ templates_file' = SaveTemplates(templates, templates_file, "ok")
    /\ tlast' = TemplateCall("save_templates", NoTemplate, FALSE, <<>>)
    /\ UNCHANGED <<default_templates, templates, aliased, dialog_db_type,
                   dialog_address>>
    /\ UNCHANGED <<hvars, avars, xvars>>

\* save_config of the live manager.
SaveConfigCall ==
    /\ clast.exc = "none"
    /\ config_file' = SaveConfig(db_config, config_file, "ok")
    /\ clast' = ConfigCall("save_config", "", "ok", "none", db_config,
                           config_file)
    /\ UNCHANGED <<app_query, db_config, error, loading, run_enabled, view,
                   sub, api, dialog_history>>
    /\ UNCHANGED <<hvars, tvars>>

\* A start of the program with any of the files the three stores can find.
InitRoundTrip ==
    /\ now = 0
    /\ history_file \in HistoryFiles
    /\ history = LoadHistory(history_file, now)
    /\ last = NoCall
    /\ twice = NotTwice
    /\ default_templates = SeedTemplates
    /\ templates_file \in TemplatesFiles
    /\ templates = LoadTemplates(templates_file, default_templates).templates
    /\ aliased = LoadTemplates(templates_file, default_templates).aliased
    /\ dialog_db_type = "postgres"
    /\ dialog_address = "A"
    /\ tlast = NoTemplateCall
    /\ app_query = <<>>
    /\ config_file \in PersistedRecords
    /\ db_config = LoadConfig(config_file).config
    /\ error = NoError
    /\ loading = FALSE
    /\ run_enabled = TRUE
    /\ view = SetData(NoBody)
    /\ sub = NoSub
    /\ api = NoApiCall
    /\ clast = Constructed(config_file)
    /\ dialog_history = <<>>

\* The loads and saves of the three stores, every write succeeding.
NextRoundTrip ==
    \/ Tick
    \/ NewManager
    \/ SaveHistoryCall
    \/ \E d \in DialogDbTypes, a \in DialogAddresses : OpenTemplateDialog(d, a)
    \/ SaveTemplatesCall
    \/ NewDbManager
    \/ SaveConfigCall

SpecRoundTrip == InitRoundTrip /\ [][NextRoundTrip]_vars

\* ------------------------------------------------------------------------
\* The mutating operations of the three stores when a write can fail
\* ------------------------------------------------------------------------

\* The (query, db_type) pairs added to the history here.
WriteInputs == {<<(<<"x">>), "postgres">>, <<(<<"x">>), "mysql">>}

\* The stores share no state (each has its own object and its own file):
\* a run exercises one of them, the other two have had no call.
Apart(store) ==
    /\ store # "history" => last = NoCall
    /\ store # "templates" => tlast = NoTemplateCall
    /\ store # "config" => clast = Constructed(AbsentConfigFile)

\* The mutating operations of the history store, of the template store and
\* of the configuration store; a write succeeds, fails at open or stops
\* after a part of the text.  The clock stands still.
NextWrites ==
    \/ \E p \in WriteInputs, w \in WriteOutcomes :
         Apart("history") /\ AddQuery(p[1], p[2], now, w)
    \/ \E i \in IdInputs, w \in WriteOutcomes :
         Apart("history") /\ ToggleFavorite(i, w)
    \/ \E i \in IdInputs, w \in WriteOutcomes :
         Apart("history") /\ DeleteQuery(i, w)
    \/ \E t \in TemplateInputs, w \in WriteOutcomes :
         Apart("templates") /\ AddTemplate(t, w)
    \/ \E t \in TemplateInputs, w \in WriteOutcomes :
         Apart("templates") /\ UpdateTemplate(t, w)
    \/ \E i \in TemplateIdInputs, w \in WriteOutcomes :
         Apart("templates") /\ DeleteTemplate(i, w)
    \/ \E n \in DisplayNames, w \in WriteOutcomes :
         Apart("config") /\ UpdateDbType(n, w)
    \/ \E n \in TableNames, w \in WriteOutcomes :
         Apart("config") /\ UpdateTableName(n, w)
    \/ \E c \in ConnectionStrings, w \in WriteOutcomes :
         Apart("config") /\ UpdateConnectionString(c, w)

SpecWrites == Init /\ [][NextWrites]_vars

\* ------------------------------------------------------------------------
\* Two history stores on one file
\* ------------------------------------------------------------------------

\* QueryHistoryDialog.__init__: the dialog's own QueryHistoryManager loads
\* the file.
OpenHistoryDialog ==
    /\ dialog_history' = LoadHistory(history_file, now)
    /\ Record([Call("dialog_init", <<>>, "", -1, FALSE, NoItem, FALSE, <<>>,
                    "ok")
                  EXCEPT !.before = dialog_history])
    /\ UNCHANGED <<now, history, history_file, clast>>
    /\ UNCHANGED <<avars, tvars>>

\* QueryHistoryDialog.toggle_favorite for the selected item of the list:
\* toggle_favorite of the dialog's manager, which saves its own history.
DialogToggleFavorite(query_id) ==
    /\ MatchingId(dialog_history, query_id) # {}
    /\ LET r == ToggleFavoriteResult(dialog_history, query_id)
       IN  /\ dialog_history' = r[1]
           /\ history_file' = SaveHistory(r[1], history_file, "ok")
           /\ Record([Call("dialog_toggle_favorite", <<>>, "", query_id,
                           FALSE, NoItem, r[2], <<>>, "ok")
                         EXCEPT !.before = dialog_history])
    /\ UNCHANGED <<now, history, clast>>
    /\ UNCHANGED <<avars, tvars>>

\* QueryHistoryDialog.delete_query for the selected item, confirmed:
\* delete_query of the dialog's manager.
DialogDeleteQuery(query_id) ==
    /\ MatchingId(dialog_history, query_id) # {}
    /\ dialog_history' = DeleteQueryResult(dialog_history, query_id)
    /\ history_file' = SaveHistory(dialog_history', history_file, "ok")
    /\ Record([Call("dialog_delete_query", <<>>, "", query_id, FALSE,
                    NoItem, FALSE, <<>>, "ok")
                  EXCEPT !.before = dialog_history])
    /\ UNCHANGED <<now, history, clast>>
    /\ UNCHANGED <<avars, tvars>>

\* A manager that adds queries and toggles favorites, and the manager of a
\* history dialog, each with the history it loaded from the one file;
\* nothing orders their calls.  Every write succeeds.
NextTwoStores ==
    \/ Tick
    \/ NewManager
    \/ \E p \in WriteInputs : AddQuery(p[1], p[2], now, "ok")
    \/ \E i \in IdInputs : ToggleFavorite(i, "ok")
    \/ OpenHistoryDialog
    \/ \E i \in IdInputs : DialogToggleFavorite(i)
    \/ \E i \in IdInputs : DialogDeleteQuery(i)

SpecTwoStores == Init /\ [][NextTwoStores]_vars

\* ------------------------------------------------------------------------
\* Claims about the history store
\* ------------------------------------------------------------------------

\* C1: no two entries of the history have the same (query, dialect) pair.
C1_HistoryDedup ==
    \A i, j \in 1..Len(history) :
        i # j => ~(history[i].query = history[j].query
                   /\ history[i].db_type = history[j].db_type)

\* C1 witness: add_query found its pair in a history of three entries.
C1_Witness ==
    /\ last.op = "add_query"
    /\ MatchingPair(last.before, last.query, last.db_type) # {}
    /\ Len(history) = 3

\* C2: any two distinct entries of the history have different ids.
C2_HistoryIdsUnique ==
    \A i, j \in 1..Len(history) : i # j => history[i].id # history[j].id

\* C3: add_query of a pair the history holds keeps the length and puts the
\* entry at index 0; two add_query calls in a row on an empty history leave
\* one entry.
C3_AddExisting ==
    last.op = "add_query" =>
        /\ MatchingPair(last.before, last.query, last.db_type) # {} =>
              /\ Len(history) = Len(last.before)
              /\ history[1].query = last.query
              /\ history[1].db_type = last.db_type
        /\ (twice.active /\ twice.before = <<>>) =>
              /\ Len(history) = 1
              /\ history[1].query = last.query
              /\ history[1].db_type = last.db_type

\* C3 witness: the same add_query was called twice on an empty history.
C3_Witness ==
    /\ last.op = "add_query"
    /\ twice.active
    /\ twice.before = <<>>
    /\ Len(last.before) = 1

\* C4: right after add_query(q, d) the entry at index 0 of get_history(False)
\* has query q and dialect d and is the returned entry.
C4_MostRecentFirst ==
    last.op = "add_query" =>
        LET listed == GetHistoryResult(history, FALSE)
        IN  /\ Len(listed) >= 1
            /\ listed[1].query = last.query
            /\ listed[1].db_type = last.db_type
            /\ listed[1].id = last.retItem.id
            /\ listed[1] = last.retItem

\* C4 witness: a second entry with another pair was inserted after a first.
C4_Witness ==
    /\ last.op = "add_query"
    /\ Len(last.before) >= 1
    /\ MatchingPair(last.before, last.query, last.db_type) = {}

\* C5: when add_query finds the pair, the promoted entry keeps its id,
\* timestamp and is_favorite, and every other entry is unchanged and keeps
\* its relative order.
C5_PromoteFrame ==
    (last.op = "add_query"
        /\ MatchingPair(last.before, last.query, last.db_type) # {}) =>
        LET i == First(MatchingPair(last.before, last.query, last.db_type))
        IN  /\ Len(history) = Len(last.before)
            /\ history[1].id = last.before[i].id
            /\ history[1].timestamp = last.before[i].timestamp
            /\ history[1].is_favorite = last.before[i].is_favorite
            /\ \A j \in 1..Len(last.before) :
                  j # i => history[IF j < i THEN j + 1 ELSE j] = last.before[j]

\* C5 witness: a favorite entry was promoted from the end of a history of
\* three, at a later clock reading than its creation.
C5_Witness ==
    /\ last.op = "add_query"
    /\ Len(last.before) = 3
    /\ MatchingPair(last.before, last.query, last.db_type) = {3}
    /\ last.before[3].is_favorite
    /\ last.before[3].timestamp < now

\* C6: toggle_favorite called twice in a row with the same id restores
\* is_favorite of every entry.
C6_ToggleTwice ==
    (last.op = "toggle_favorite" /\ twice.active) =>
        /\ Len(history) = Len(twice.before)
        /\ \A i \in 1..Len(history) :
              history[i].is_favorite = twice.before[i].is_favorite

\* C6 witness: the id toggled twice matches two entries of the history.
C6_Witness ==
    /\ last.op = "toggle_favorite"
    /\ twice.active
    /\ Cardinality(MatchingId(history, last.id)) = 2

\* C7: toggle_favorite with an id that matches no entry returns False and
\* changes neither the history nor the file; with a matching id it flips
\* is_favorite of the first matching entry only and returns the new value.
C7_ToggleFavorite ==
    last.op = "toggle_favorite" =>
        IF MatchingId(last.before, last.id) = {}
        THEN /\ last.retBool = FALSE
             /\ history = last.before
             /\ history_file = last.fileBefore
        ELSE LET i == First(MatchingId(last.before, last.id))
             IN  /\ Len(history) = Len(last.before)
                 /\ history[i] = [last.before[i] EXCEPT
                                     !.is_favorite = ~last.before[i].is_favorite]
                 /\ \A j \in 1..Len(history) : j # i => history[j] = last.before[j]
                 /\ last.retBool = history[i].is_favorite

\* C7 witness: toggle_favorite got an id that no entry of a non-empty,
\* saved history has.
C7_Witness ==
    /\ last.op = "toggle_favorite"
    /\ MatchingId(last.before, last.id) = {}
    /\ Len(last.before) >= 1
    /\ last.fileBefore.state = "ok"

\* The list r holds exactly the favorite entries of h, in the order of h.
FavoritesInOrder(r, h) ==
    LET F == {i \in 1..Len(h) : h[i].is_favorite}
    IN  /\ Len(r) = Cardinality(F)
        /\ \A i \in F : r[Cardinality({j \in F : j <= i})] = h[i]

\* C8: get_history(True) returns exactly the favorite entries in the order
\* of the full log, get_history(False) the full log, and the call leaves
\* the history unchanged.
C8_GetHistory ==
    last.op = "get_history" =>
        /\ history = last.before
        /\ history_file = last.fileBefore
        /\ IF last.flag
           THEN FavoritesInOrder(last.retList, history)
           ELSE last.retList = history

\* C8 witness: the favorites of a history of three were listed, with an
\* entry that is not a favorite between two favorites.
C8_Witness ==
    /\ last.op = "get_history"
    /\ last.flag
    /\ Len(history) = 3
    /\ history[1].is_favorite
    /\ ~history[2].is_favorite
    /\ history[3].is_favorite

\* ------------------------------------------------------------------------
\* Claims about the submit handler
\* ------------------------------------------------------------------------

\* C9: a submitted query is recorded in the history exactly when execute
\* succeeded (it returned the body of a status-200 response), in both main
\* windows: after a success it is at the front of the history (in memory
\* and in the file), after an API status error, a connection error or any
\* other exception of execute the history is unchanged.
C9_RecordedIffSuccess ==
    /\ (sub.kind = "http" /\ sub.status = 200 /\ sub.exc = "none") =>
          LET persisted == LoadHistory(history_file, now)
          IN  /\ Len(history) >= 1
              /\ history[1].query = sub.query
              /\ history[1].db_type = sub.db_type
              /\ Len(persisted) >= 1
              /\ persisted[1].query = sub.query
              /\ persisted[1].db_type = sub.db_type
    /\ ((sub.kind = "http" /\ sub.status # 200) \/ sub.kind = "conn"
           \/ sub.exc # "none") =>
          /\ history = sub.historyBefore
          /\ history_file = sub.fileBefore

\* C9 witness: a submit in src/main.py failed with a connection error
\* while the saved history held another query but not the submitted one.
C9_Witness ==
    /\ sub.handler = "main"
    /\ sub.kind = "conn"
    /\ history_file.state = "ok"
    /\ Len(history) >= 1
    /\ MatchingPair(LoadHistory(history_file, now), sub.query, sub.db_type) = {}

\* ------------------------------------------------------------------------
\* Claims about the template store
\* ------------------------------------------------------------------------

\* C10: no two templates of the catalog have the same id.
C10_TemplateIdsUnique ==
    \A i, j \in 1..Len(templates) : i # j => templates[i].id # templates[j].id

\* C11: every completed new-template save adds one entry to the catalog
\* under an id the catalog did not hold, and changes no template that was
\* in the catalog.
C11_CreateAddsOne ==
    tlast.op = "create_template" =>
        /\ MatchingTemplateId(tlast.before, tlast.template.id) = {}
        /\ Len(templates) = Len(tlast.before) + 1
        /\ \A i \in 1..Len(tlast.before) : templates[i] = tlast.before[i]

\* C12: update_template replaces only the first entry whose id is that of
\* the argument and returns True; without such an entry it returns False
\* and changes neither the catalog nor the file.  The length and the
\* position of every entry stay as they were.
C12_UpdateTemplate ==
    tlast.op = "update_template" =>
        LET M == MatchingTemplateId(tlast.before, tlast.template.id)
        IN  /\ Len(templates) = Len(tlast.before)
            /\ IF M = {}
               THEN /\ tlast.ret = FALSE
                    /\ templates = tlast.before
                    /\ templates_file = tlast.fileBefore
               ELSE /\ tlast.ret = TRUE
                    /\ \A i \in 1..Len(templates) :
                          templates[i] =
                              IF i \in M /\ \A j \in M : i <= j
                              THEN tlast.template
                              ELSE tlast.before[i]

\* C12 witness: update_template was called with an id that two entries of
\* the catalog have.
C12_Witness ==
    /\ tlast.op = "update_template"
    /\ Cardinality(MatchingTemplateId(tlast.before, tlast.template.id)) = 2

\* The list r holds exactly the entries of h at the indices K, in the order
\* of h.
SelectedInOrder(r, h, K) ==
    /\ Len(r) = Cardinality(K)
    /\ \A i \in K : r[Cardinality({j \in K : j <= i})] = h[i]

\* C13: delete_template removes every entry with the id and no other, the
\* rest keep their order; deleting the same id again, or an id the catalog
\* does not hold, leaves the catalog unchanged.
C13_DeleteTemplate ==
    tlast.op = "delete_template" =>
        LET K == {i \in 1..Len(tlast.before) :
                     tlast.before[i].id # tlast.template.id}
        IN  /\ SelectedInOrder(templates, tlast.before, K)
            /\ K = 1..Len(tlast.before) => templates = tlast.before
            /\ DeleteTemplateResult(templates, tlast.template.id) = templates

\* C13 witness: delete_template removed two entries with the same id, the
\* first and the last of a catalog of four.
C13_Witness ==
    /\ tlast.op = "delete_template"
    /\ MatchingTemplateId(tlast.before, tlast.template.id) = {1, 4}

\* C14: get_templates_by_db_type returns exactly the templates of the
\* dialect, in the order of the catalog, and changes neither the catalog
\* nor the file; on the seed catalog the dialect mongodb gives one of the
\* three seeds.
C14_ByDialect ==
    /\ tlast.op = "get_templates_by_db_type" =>
          LET K == {i \in 1..Len(templates) :
                       templates[i].database_type = tlast.template.database_type}
          IN  /\ SelectedInOrder(tlast.retList, templates, K)
              /\ templates = tlast.before
              /\ templates_file = tlast.fileBefore
              /\ default_templates = tlast.defaultsBefore
    /\ Len(SeedTemplates) = 3
    /\ GetTemplatesByDbType(SeedTemplates, "mongodb") = <<SeedTemplates[3]>>

\* C14 witness: the postgres templates of a catalog of four were listed,
\* with the mongodb seed between them.
C14_Witness ==
    /\ tlast.op = "get_templates_by_db_type"
    /\ tlast.template.database_type = "postgres"
    /\ Len(templates) = 4
    /\ Len(tlast.retList) = 3
    /\ templates[3].database_type = "mongodb"

\* C15: load_templates of a new store, when templates.json is absent or
\* does not parse, returns the three seed templates, whatever a store did
\* before in the process.
C15_LoadDefaults ==
    (tlast.op = "load_templates" /\ tlast.fileBefore.state # "ok") =>
        /\ tlast.retList = SeedTemplates
        /\ templates = SeedTemplates

\* ------------------------------------------------------------------------
\* Claims about the API client
\* ------------------------------------------------------------------------

\* C16: the query posted by execute_query is the input query with every
\* "{table_name}" replaced by the table name in double quotes when the
\* dialect is postgres, and the input query itself for every other dialect
\* and for a postgres query without the token.
C16_ProcessQuery ==
    /\ api.op = "execute_query" =>
          LET posted == api.out.request.query
          IN  /\ Len(posted) = Len(api.query)
              /\ \A i \in 1..Len(posted) :
                    posted[i] =
                        IF api.config.type = "postgres"
                           /\ api.query[i] = "{table_name}"
                        THEN "\"" \o api.config.tableName \o "\""
                        ELSE api.query[i]
              /\ api.config.type # "postgres" => posted = api.query
              /\ ~Contains(api.query, "{table_name}") => posted = api.query
    /\ ProcessQuery(<<"SELECT * FROM ", "{table_name}">>,
                    [type |-> "postgres", url |-> "", tableName |-> "users"])
          = <<"SELECT * FROM ", "\"users\"">>

\* C16 witness: a postgres query with two "{table_name}" was executed for
\* the table users.
C16_Witness ==
    /\ api.op = "execute_query"
    /\ api.config = [type |-> "postgres", url |-> "", tableName |-> "users"]
    /\ api.query = <<"{table_name}", "x", "{table_name}">>

\* C17: execute_query returns the parsed body unchanged exactly when the
\* status is 200 (and the body is JSON); for every other status it returns
\* nothing and raises an API error with the status and the raw body.
C17_ResponseHandling ==
    (api.op = "execute_query" /\ api.resp.kind = "http"
        /\ api.resp.body.shape # "invalid") =>
        IF api.resp.status = 200
        THEN /\ api.out.exc = "none"
             /\ api.out.data = api.resp.body
        ELSE /\ api.out.exc = "api"
             /\ api.out.data = NoBody
             /\ api.out.error =
                    [kind |-> "api", status |-> api.resp.status,
                     text |-> api.resp.text]

\* C18: after a connection failure the call raises the connection error
\* with its cause, and every value a call returns is the parsed body of a
\* status-200 response.
C18_NoFabricatedData ==
    api.op \in {"execute_query", "run_test_query"} =>
        /\ api.resp.kind = "conn" =>
              /\ api.out.exc = "conn"
              /\ api.out.error = [kind |-> "conn", status |-> 0,
                                  text |-> api.resp.text]
        /\ (api.out.exc = "none" \/ api.out.data # NoBody) =>
              /\ api.resp.kind = "http"
              /\ api.resp.status = 200
              /\ api.out.data = api.resp.body

\* C18 witness: execute_query met a timeout.
C18_Witness ==
    /\ api.op = "execute_query"
    /\ api.resp.kind = "conn"
    /\ api.resp.text = "timeout"

\* C19: run_test_query posts the request of, and ends as,
\* execute_query("SELECT 1 as test", blank postgres configuration, True).
C19_DiagnosticEquivalent ==
    api.op = "run_test_query" =>
        api.out = ExecuteQuery(<<"SELECT 1 as test">>,
                               [type |-> "postgres", url |-> "", tableName |-> ""],
                               TRUE, api.resp)

\* ------------------------------------------------------------------------
\* Claims about the normalization of a response
\* ------------------------------------------------------------------------

\* The value r is an object with a "data" key.
HasDataKey(r) ==
    r.shape \in {"wrapped", "wrapped_none", "wrapped_object", "wrapped_wrapped"}

\* The value under the "data" key of r.
DataOf(r) ==
    CASE r.shape = "wrapped" -> [shape |-> "list", rows |-> r.rows]
      [] r.shape = "wrapped_none" -> [shape |-> "none", rows |-> <<>>]
      [] r.shape = "wrapped_object" -> [shape |-> "object", rows |-> <<>>]
      [] r.shape = "wrapped_wrapped" -> [shape |-> "wrapped", rows |-> r.rows]

\* The normalization rule.
Normalized(r) == IF HasDataKey(r) THEN DataOf(r) ELSE r

\* C20: the normalized result of a response value r is r.data when r is an
\* object with a "data" key and r itself otherwise, in display_results
\* (actual_data) and in set_data (self.data, for the value it is handed);
\* an object with a row list under "data" shows those rows, a bare row list
\* shows the same rows, and an empty list under "data" shows no rows.
C20_Normalization ==
    (sub.kind = "http" /\ sub.status = 200 /\ sub.exc = "none") =>
        LET handed == IF sub.dialogs = <<"Query Result">>
                      THEN [shape |-> "none", rows |-> <<>>]
                      ELSE sub.actual_data
        IN  /\ sub.actual_data = Normalized(sub.body)
            /\ view.data = Normalized(handed)
            /\ (sub.body.shape \in {"list", "wrapped"} /\ sub.body.rows # <<>>) =>
                  /\ view.data = [shape |-> "list", rows |-> sub.body.rows]
                  /\ view.table = sub.body.rows
                  /\ sub.dialogs = <<"Query Success">>
            /\ (sub.body.shape \in {"list", "wrapped"} /\ sub.body.rows = <<>>) =>
                  /\ view.table = <<>>
                  /\ sub.dialogs = <<"Query Result">>

\* C20 witness: a submit was answered with an object whose "data" is an
\* object with a "data" key of its own.
C20_Witness ==
    /\ sub.kind = "http"
    /\ sub.status = 200
    /\ sub.body.shape = "wrapped_wrapped"

\* ------------------------------------------------------------------------
\* Claims about the outcome of a run
\* ------------------------------------------------------------------------

\* The message boxes of an error outcome.
ErrorDialogs == {"Query Error", "API Error", "Connection Error"}

\* The normalized result of r is empty or absent.
EmptyResult(r) ==
    \/ Normalized(r).shape = "none"
    \/ Normalized(r).shape = "list" /\ Normalized(r).rows = <<>>

\* C21: a status-200 answer whose result is empty or absent after
\* unwrapping ends with no error recorded, the "Query Result" information
\* box alone, an empty view and the query at the front of the history; an
\* API status error or a connection error ends with the error recorded and
\* an error box; no run shows both an error box and the "no data" box.
C21_EmptyIsNotError ==
    /\ (sub.kind = "http" /\ sub.status = 200 /\ EmptyResult(sub.response)) =>
          /\ error = NoError
          /\ sub.dialogs = <<"Query Result">>
          /\ view.table = <<>>
          /\ Len(history) >= 1
          /\ history[1].query = sub.query
          /\ history[1].db_type = sub.db_type
    /\ ((sub.kind = "http" /\ sub.status # 200) \/ sub.kind = "conn") =>
          /\ error # NoError
          /\ \E i \in 1..Len(sub.dialogs) : sub.dialogs[i] \in ErrorDialogs
    /\ ~ /\ \E i \in 1..Len(sub.dialogs) : sub.dialogs[i] \in ErrorDialogs
          /\ \E j \in 1..Len(sub.dialogs) : sub.dialogs[j] = "Query Result"

\* ------------------------------------------------------------------------
\* Claims about the configuration store
\* ------------------------------------------------------------------------

\* C22: load never ends with an exception: from an absent db_config.json,
\* and from one that cannot be read or parsed, it yields the default
\* config.
C22_LoadNeverRaises ==
    clast.op = "load_config" =>
        /\ clast.exc = "none"
        /\ clast.fileBefore.state \in {"absent", "corrupt", "unreadable"} =>
              db_config = DefaultConfig

\* C23: the dialect of db_config is one of postgres, mysql and mongodb in
\* every state.
C23_DialectInEnum ==
    db_config.type \in {"postgres", "mysql", "mongodb"}

\* ------------------------------------------------------------------------
\* Claims about persistence
\* ------------------------------------------------------------------------

\* C24: after a store saved what it had loaded, a load at any later time
\* returns what the first load returned, in every field and in the same
\* order: the history, the template catalog and the config.
C24_RoundTrip ==
    /\ last.op = "save_history" =>
          \A t \in 0..MaxClock : LoadHistory(history_file, t) = history
    /\ tlast.op = "save_templates" =>
          LoadTemplates(templates_file, default_templates).templates = templates
    /\ clast.op = "save_config" =>
          LoadConfig(config_file) = [config |-> db_config, exc |-> "none"]

\* C24 witness: each store saved what it had loaded; the history was
\* loaded at an earlier time and has two entries, the first a favorite.
C24_Witness ==
    /\ last.op = "save_history"
    /\ now > 0
    /\ Len(history) = 2
    /\ history[1].is_favorite
    /\ history[1].id = 1
    /\ tlast.op = "save_templates"
    /\ Len(templates) = 2
    /\ clast.op = "save_config"
    /\ db_config.type = "mysql"

\* C25: a mutating operation of a store ends without an exception whatever
\* the outcome of its write, and it returns the value and leaves the
\* in-memory state that it does when the write succeeds: add_query,
\* toggle_favorite and delete_query, add_template, update_template and
\* delete_template, and the three setters of the config.
C25_WriteFailureIgnored ==
    /\ last.op = "add_query" =>
          /\ last.exc = "none"
          /\ \E t \in 0..MaxClock :
                LET r == AddQueryResult(last.before, last.query, last.db_type, t, t)
                IN  history = r[1] /\ last.retItem = r[2]
    /\ last.op = "toggle_favorite" =>
          /\ last.exc = "none"
          /\ history = ToggleFavoriteResult(last.before, last.id)[1]
          /\ last.retBool = ToggleFavoriteResult(last.before, last.id)[2]
    /\ last.op = "delete_query" =>
          /\ last.exc = "none"
          /\ history = DeleteQueryResult(last.before, last.id)
    /\ tlast.op = "add_template" =>
          /\ tlast.exc = "none"
          /\ templates = AddTemplateResult(tlast.before, tlast.template)
    /\ tlast.op = "update_template" =>
          /\ tlast.exc = "none"
          /\ templates = UpdateTemplateResult(tlast.before, tlast.template).templates
          /\ tlast.ret = UpdateTemplateResult(tlast.before, tlast.template).ret
    /\ tlast.op = "delete_template" =>
          /\ tlast.exc = "none"
          /\ templates = DeleteTemplateResult(tlast.before, tlast.template.id)
    /\ clast.op = "update_db_type" =>
          /\ clast.exc = "none"
          /\ db_config = [clast.before EXCEPT !.type = DbTypeMap(clast.arg)]
    /\ clast.op = "update_table_name" =>
          /\ clast.exc = "none"
          /\ db_config = [clast.before EXCEPT !.tableName = clast.arg]
    /\ clast.op = "update_connection_string" =>
          /\ clast.exc = "none"
          /\ db_config = [clast.before EXCEPT !.url = clast.arg]

\* C25 witness: a setter of the config changed the table name while its
\* write failed and db_config.json stayed absent.
C25_Witness ==
    /\ clast.op = "update_table_name"
    /\ clast.w = "open_failed"
    /\ db_config.tableName = "users"
    /\ config_file = AbsentConfigFile

\* C26: with every write succeeding, after add_query, delete_query and
\* toggle_favorite the log in query_history.json is the in-memory history,
\* entry for entry and in the same order: the file holds the to_dict of
\* each entry once the call has changed the history, and a load at any time
\* returns the history.
C26_PersistedAfterMutation ==
    last.op \in {"add_query", "delete_query", "toggle_favorite"} =>
        /\ \A t \in 0..MaxClock : LoadHistory(history_file, t) = history
        /\ (last.op = "toggle_favorite" => last.retBool \/ history # last.before) =>
              /\ history_file.state = "ok"
              /\ history_file.data = [i \in 1..Len(history) |-> ToDict(history[i])]

\* C26 witness: toggle_favorite made the second of two entries a favorite.
C26_Witness ==
    /\ last.op = "toggle_favorite"
    /\ last.retBool
    /\ Len(history) = 2
    /\ history[2].is_favorite
    /\ ~history[1].is_favorite

\* C27: after a change of the dialect, of the table name or of the
\* connection string whose write succeeded, db_config.json holds the whole
\* in-memory config; applying a template that changes the config leaves
\* the file equal to it as well, and one that changes nothing leaves a
\* file that held the config holding it.
C27_ConfigPersisted ==
    /\ ( /\ clast.op \in {"update_db_type", "update_table_name",
                           "update_connection_string"}
         /\ clast.w = "ok" ) =>
          config_file = [state |-> "ok", data |-> db_config]
    /\ clast.op = "apply_template" =>
          /\ (db_config # clast.before /\ clast.w = "ok") =>
                config_file = [state |-> "ok", data |-> db_config]
          /\ LoadConfig(clast.fileBefore) = [config |-> clast.before, exc |-> "none"] =>
                LoadConfig(config_file) = [config |-> db_config, exc |-> "none"]

\* C27 witness: the connection string was changed and written over a
\* db_config.json that an earlier write had left unparsable.
C27_Witness ==
    /\ clast.op = "update_connection_string"
    /\ clast.w = "ok"
    /\ clast.fileBefore.state = "corrupt"
    /\ db_config.url = "db://h"
    /\ db_config.type = "mongodb"

\* The entries of the log h with the query and dialect of item.
Persisted(h, item) == MatchingPair(h, item.query, item.db_type)

\* C28: the save of one manager overwrites the whole file with that
\* manager's history: after a mutation of the dialog's manager the
\* persisted log is the dialog's history, and every entry the other manager
\* holds that the dialog's manager did not load is absent from it; after a
\* mutation of the other manager the persisted log is that manager's
\* history, without the favorites toggled in the dialog.
C28_LostUpdate ==
    LET log == LoadHistory(history_file, now)
    IN  /\ last.op \in {"dialog_toggle_favorite", "dialog_delete_query"} =>
              /\ log = dialog_history
              /\ \A i \in 1..Len(history) :
                    Persisted(dialog_history, history[i]) = {} =>
                        Persisted(log, history[i]) = {}
        /\ (last.op = "add_query" \/ (last.op = "toggle_favorite" /\ last.retBool)) =>
              /\ log = history
              /\ \A i \in 1..Len(dialog_history) :
                    Persisted(history, dialog_history[i]) = {} =>
                        Persisted(log, dialog_history[i]) = {}

\* C28 witness: both managers loaded the file, one added an entry and saved
\* it, then a favorite was toggled in the dialog: the entry that was in the
\* file before the dialog's save is in the first manager's history and not
\* in the file.
C28_Witness ==
    /\ last.op = "dialog_toggle_favorite"
    /\ last.fileBefore.state = "ok"
    /\ \E i \in 1..Len(history) :
          /\ Persisted(LoadHistory(last.fileBefore, now), history[i]) # {}
          /\ Persisted(LoadHistory(history_file, now), history[i]) = {}

\* ------------------------------------------------------------------------
\* Claims about the submit handler: mock rows and the guard
\* ------------------------------------------------------------------------

\* C29: the mock rows are handed to display_results only after a
\* connection failure of the request, and after an answer with a status
\* other than 200 the visualizer shows no rows: it is as set_data(None)
\* left it.
C29_MockOnlyAfterConnectionError ==
    /\ (sub.handler # "none" /\ sub.body = MockData) => sub.kind = "conn"
    /\ (sub.kind = "http" /\ sub.status # 200) =>
          /\ sub.body # MockData
          /\ view = SetData(NoBody)

\* C30: a submit of a query that is empty or whitespace only, or that holds
\* {table_name} while tableName is empty, sends no request, leaves the
\* history and its file as they were and the run button enabled, in both
\* main windows; so every request of a submit carries a query that passed
\* the guard, and none has a placeholder replaced by the empty quoted
\* identifier.
C30_SubmitGuard ==
    sub.handler # "none" =>
        LET blank == \A i \in 1..Len(sub.query) : sub.query[i] = " "
            unnamed == /\ \E i \in 1..Len(sub.query) : sub.query[i] = "{table_name}"
                       /\ db_config.tableName = ""
        IN  /\ (blank \/ unnamed) =>
                  /\ sub.request = NoRequest
                  /\ sub.kind \in {"empty", "no_table"}
                  /\ history = sub.historyBefore
                  /\ history_file = sub.fileBefore
                  /\ run_enabled
                  /\ ~loading
            /\ sub.request # NoRequest =>
                  /\ ~blank
                  /\ ~unnamed
                  /\ \A i \in 1..Len(sub.request.query) :
                        sub.request.query[i] # "\"\""

\* C30 witness: a query with {table_name} was submitted in src/main.py
\* while the table name was empty and the history held an entry.
C30_Witness ==
    /\ sub.handler = "main"
    /\ sub.kind = "no_table"
    /\ Contains(sub.query, "{table_name}")
    /\ db_config.type = "postgres"
    /\ Len(history) >= 1

====
